---- MODULE Spec2Model ----
(***************************************************************************)
(* Markouts.calculate_markouts (src/src/markouts.py) and                   *)
(* Markout_model.markout_summary (src/markout_planning.py) as a state      *)
(* machine.  One call of calculate_markouts is the actions                 *)
(* calculate_markouts_begin (lines 131-132), calculate_markouts_row (one   *)
(* iteration of the loop of lines 134-177) and calculate_markouts_return   *)
(* (line 179).  Prices and markouts are exact rationals <<num, den>>; NaN  *)
(* (with den = 0) is the pandas missing marker.                            *)
(***************************************************************************)
EXTENDS Integers, Sequences, FiniteSets, TLC

VARIABLES
    df,         \* the caller's table; calculate_markouts changes it in place
    horizons,   \* markout_distance_array of the call
    remote,     \* what the data provider serves for each (symbol, date)
    cache,      \* the files under ../data/binance_data, by (symbol, date)
    pc,         \* "idle", "loop", "returned", "raised", "summarized"
    idx,        \* rows of df the loop has completed
    run,        \* 1 for the first call, 2 for the repeated call
    orig,       \* the table as it was handed to the first call
    out1,       \* the table the first call returned (NoTable before)
    dex,        \* per row: the dex_data frame read for it (NoFrame if none)
    picked,     \* per row and horizon: last_row of line 175 (NoRow if none)
    err,        \* the exception that left calculate_markouts, or "None"
    summary     \* the frame markout_summary returned (<<>> before)

vars == <<df, horizons, remote, cache, pc, idx, run, orig, out1, dex, picked,
          err, summary>>

----------------------------------------------------------------------------
(* Bounds of the model *)

MaxTrades == 2
MaxHorizons == 2
\* a calendar day shortened to this many seconds, so that microsecond
\* timestamps of two consecutive days stay small
SecondsPerDay == 2

(* Constants of the program *)

Micro == 1000000

\* a cell is a rational <<num, den>>; np.nan is the one with den = 0
NaN == <<0, 0>>
\* the missing value of the timestamp column (timestamps are >= 0)
NaT == 0 - 1
NoSymbol == <<"None", "None">>

----------------------------------------------------------------------------
(* Exact rational arithmetic for prices (Python floats, idealised) *)

Abs(n) == IF n < 0 THEN -n ELSE n

RECURSIVE GCD(_, _)
GCD(a, b) == IF b = 0 THEN a ELSE GCD(b, a % b)

Rat(n, d) ==
    LET s == IF d < 0 THEN -1 ELSE 1
        g == GCD(Abs(n), Abs(d))
    IN  <<(s * n) \div g, (s * d) \div g>>

RatAdd(x, y) ==
    LET g == GCD(x[2], y[2])
    IN  Rat(x[1] * (y[2] \div g) + y[1] * (x[2] \div g), (x[2] \div g) * y[2])
RatSub(x, y) == RatAdd(x, <<-y[1], y[2]>>)
RatMul(x, y) == Rat(x[1] * y[1], x[2] * y[2])
RatDiv(x, y) == Rat(x[1] * y[2], x[2] * y[1])
RatLeq(x, y) == x[1] * y[2] <= y[1] * x[2]

----------------------------------------------------------------------------
(* Symbols *)

\* str.upper() on a token; a symbol is the pair of its two tokens, and
\* upper() of the concatenation is the concatenation of the upper()s
UpperToken(tok) ==
    CASE tok = "eth" -> "ETH"
      [] tok = "usdc" -> "USDC"
      [] tok = "btc" -> "BTC"
      [] tok = "xyz" -> "XYZ"
      [] OTHER -> tok

Upper(sym) == <<UpperToken(sym[1]), UpperToken(sym[2])>>

\* ../data/available_tardis_pairs_list.json as loaded by the constructor
available_symbols == {<<"ETH", "USDC">>, <<"BTC", "USDC">>}

is_valid_symbol(symbol) == Upper(symbol) \in available_symbols

symbol1(row) == Upper(<<row.token_in, row.token_out>>)
symbol2(row) == Upper(<<row.token_out, row.token_in>>)

valid_symbol(row) ==
    IF is_valid_symbol(symbol1(row)) THEN symbol1(row)
    ELSE IF is_valid_symbol(symbol2(row)) THEN symbol2(row)
    ELSE NoSymbol

\* row['amount_out'] / row['amount_in']
get_trade_price(row) == Rat(row.amount_out, row.amount_in)

----------------------------------------------------------------------------
(* Reference data *)

date_start_next(timestamp) == (timestamp \div SecondsPerDay) + 1

\* datetime.fromtimestamp(int(timestamp)).strftime('%Y-%m-%d')
date_start(timestamp) == timestamp \div SecondsPerDay

Days == 0 .. 2

Snap(t, bid, ask) == [timestamp |-> t, bid |-> bid, ask |-> ask]

\* The full book_snapshot_5 table of a symbol and a date: its snapshots lie
\* inside the date and are ordered by time (two of ETHUSDC share a time).
Tape(sym, d) ==
    LET base == d * SecondsPerDay * Micro
    IN  IF sym = <<"ETH", "USDC">>
        THEN << Snap(base, 198 + d, 202 + d),
                Snap(base + 300000, 203 + d, 206 + d),
                Snap(base + Micro, 204 + d, 206 + d),
                Snap(base + Micro, 209 + d, 211 + d) >>
        ELSE << Snap(base + 300000, 30 + d, 32 + d),
                Snap(base + Micro + 700000, 33 + d, 34 + d) >>

RECURSIVE SubSeqs(_)
SubSeqs(s) ==
    IF s = <<>> THEN {<<>>}
    ELSE LET rest == SubSeqs(Tail(s))
         IN  rest \cup {<<Head(s)>> \o r : r \in rest}

Keys == available_symbols \X Days

\* What the provider serves for a key.  kind:
\*   "ok"            the download and the decompression succeed; file is
\*                   the decompressed file
\*   "download_error" datasets.download raises
\*   "gz_bad"        the .gz is no gzip stream: copyfileobj raises at once
\*   "gz_truncated"  the .gz ends early: copyfileobj raises after `cut`
\*                   rows of the table were written
\* file.fmt: "csv" (the table), "garbage" (read_csv raises), "nocolumns"
\* (read_csv succeeds, the frame is not empty, it has no timestamp column)
Served(kind, fmt, rows, cut) ==
    [kind |-> kind, fmt |-> fmt, rows |-> rows, cut |-> cut]

Healthy(sym, d) == Served("ok", "csv", Tape(sym, d), 0)

FaultsOf(sym, d) ==
    {Served("download_error", "csv", Tape(sym, d), 0),
     Served("gz_bad", "csv", Tape(sym, d), 0),
     Served("ok", "garbage", <<>>, 0),
     Served("ok", "nocolumns", <<>>, 0),
     Served("ok", "csv", <<>>, 0)}
    \cup {Served("gz_truncated", "csv", Tape(sym, d), c) : c \in {0, 2}}

\* A file of ../data/binance_data.  fmt: "absent", "zero" (no bytes),
\* "csv", "garbage", "nocolumns"
File(fmt, rows) == [fmt |-> fmt, rows |-> rows]
AbsentFile == File("absent", <<>>)

Min(a, b) == IF a < b THEN a ELSE b

\* Lines 72-118.  Returns the path (the key of the file) or "NA", and the
\* files as the call leaves them: a decompression that raises leaves what
\* it had written at output_path.
get_data_from_tardis(timestamp, symbol) ==
    LET key == <<symbol, date_start(timestamp)>>
        srv == remote[key]
    IN  IF cache[key].fmt # "absent"
        THEN [path |-> "output_path", key |-> key, files |-> cache]
        ELSE IF srv.kind = "download_error"
        THEN [path |-> "NA", key |-> key, files |-> cache]
        ELSE IF srv.kind = "gz_bad"
        THEN [path |-> "NA", key |-> key,
              files |-> [cache EXCEPT ![key] = File("zero", <<>>)]]
        ELSE IF srv.kind = "gz_truncated"
        THEN [path |-> "NA", key |-> key,
              files |-> [cache EXCEPT ![key] =
                  File("csv", SubSeq(srv.rows, 1, Min(srv.cut, Len(srv.rows))))]]
        ELSE [path |-> "output_path", key |-> key,
              files |-> [cache EXCEPT ![key] = File(srv.fmt, srv.rows)]]

----------------------------------------------------------------------------
(* The table *)

\* A DataFrame with the default RangeIndex: its trade rows, the horizons of
\* its markout_<h> columns in column order, and per row the cell of each.
Table(rows, cols, cells) == [rows |-> rows, cols |-> cols, cells |-> cells]
NoTable == Table(<<>>, <<>>, <<>>)

Range(s) == {s[k] : k \in DOMAIN s}

set_column_append(t, distance, fill) ==
    Table(t.rows, Append(t.cols, distance),
          [i \in DOMAIN t.rows |->
              [c \in Range(t.cols) \cup {distance} |->
                  IF c = distance THEN fill ELSE t.cells[i][c]]])

\* df[f'markout_{distance}'] = fill: a column that exists keeps its place
\* and is overwritten, a new one is appended
set_column(t, distance, fill) ==
    Table(t.rows,
          IF distance \in Range(t.cols) THEN t.cols
          ELSE Append(t.cols, distance),
          [i \in DOMAIN t.rows |->
              [c \in Range(t.cols) \cup {distance} |->
                  IF c = distance THEN fill ELSE t.cells[i][c]]])

RECURSIVE add_markout_columns_zero(_, _)
add_markout_columns_zero(t, distances) ==
    IF distances = <<>> THEN t
    ELSE add_markout_columns_zero(set_column(t, Head(distances), <<0, 1>>),
                                  Tail(distances))

\* lines 131-132
RECURSIVE add_markout_columns(_, _)
add_markout_columns(t, distances) ==
    IF distances = <<>> THEN t
    ELSE add_markout_columns(set_column(t, Head(distances), NaN),
                             Tail(distances))

----------------------------------------------------------------------------
(* One row of the loop *)

NoRow == Snap(NaT, 0, 0)
NoFrame == File("none", <<>>)

\* int(timestamp * 1_000_000), the timestamp a whole number of seconds
row_timestamp_micro(timestamp) == timestamp * Micro

filter_timestamp(timestamp, distance) ==
    row_timestamp_micro(timestamp) + distance * Micro

relevant_data_strict(dex_data, ft) ==
    SelectSeq(dex_data, LAMBDA r : r.timestamp < ft)

\* dex_data[dex_data['timestamp'] <= filter_timestamp]
relevant_data(dex_data, ft) ==
    SelectSeq(dex_data, LAMBDA r : r.timestamp <= ft)

last_row_first(relevant) == relevant[1]

\* relevant_data.iloc[-1]
last_row(relevant) == relevant[Len(relevant)]

\* (last_row['asks[0].price'] + last_row['bids[0].price']) / 2
midpoint(r) == Rat(r.ask + r.bid, 2)

\* line 177: what is stored in the cell
markout_value(row, r) == midpoint(r)

\* lines 168-177 for one row: the cells and the last_row of each horizon,
\* the horizons taken in order (a later duplicate overwrites)
RECURSIVE markout_loop(_, _, _, _, _)
markout_loop(row, dex_data, distances, cells, rowsPicked) ==
    IF distances = <<>> THEN [cells |-> cells, picked |-> rowsPicked]
    ELSE LET distance == Head(distances)
             rel == relevant_data(dex_data,
                                  filter_timestamp(row.timestamp, distance))
         IN  IF rel = <<>>
             THEN markout_loop(row, dex_data, Tail(distances), cells,
                               rowsPicked)
             ELSE markout_loop(row, dex_data, Tail(distances),
                      [cells EXCEPT ![distance] =
                          markout_value(row, last_row(rel))],
                      [rowsPicked EXCEPT ![distance] = last_row(rel)])

\* What lines 135-177 do with row i: "skip" (a continue, or no horizon to
\* loop over), "raise" (an exception leaves calculate_markouts: int() of a
\* missing timestamp at line 72, dex_data['timestamp'] of a frame without
\* that column at line 170) or "fill"
row_outcome(i) ==
    LET row == df.rows[i]
        vs == valid_symbol(row)
    IN  IF vs = NoSymbol
        THEN [what |-> "skip", files |-> cache, frame |-> NoFrame,
              error |-> "None"]
        ELSE IF row.timestamp = NaT
        THEN [what |-> "raise", files |-> cache, frame |-> NoFrame,
              error |-> "ValueError"]
        ELSE LET got == get_data_from_tardis(row.timestamp, vs)
                 file == got.files[got.key]
             IN  IF got.path = "NA"
                 THEN [what |-> "skip", files |-> got.files,
                       frame |-> NoFrame, error |-> "None"]
                 ELSE IF file.fmt \in {"zero", "garbage"}
                 THEN [what |-> "skip", files |-> got.files,
                       frame |-> NoFrame, error |-> "None"]
                 ELSE IF file.fmt = "csv" /\ file.rows = <<>>
                 THEN [what |-> "skip", files |-> got.files,
                       frame |-> file, error |-> "None"]
                 ELSE IF file.fmt = "nocolumns" /\ horizons = <<>>
                 THEN [what |-> "skip", files |-> got.files,
                       frame |-> file, error |-> "None"]
                 ELSE IF file.fmt = "nocolumns"
                 THEN [what |-> "raise", files |-> got.files,
                       frame |-> file, error |-> "KeyError"]
                 ELSE [what |-> "fill", files |-> got.files,
                       frame |-> file, error |-> "None"]

----------------------------------------------------------------------------
(* markout_summary, lines 31-46 of markout_planning.py *)

\* df[markout_col] with its NaN dropped, as every pandas reduction does
RECURSIVE dropna(_)
dropna(col) ==
    IF col = <<>> THEN <<>>
    ELSE IF Head(col) = NaN THEN dropna(Tail(col))
    ELSE <<Head(col)>> \o dropna(Tail(col))

column(t, distance) == [i \in DOMAIN t.rows |-> t.cells[i][distance]]

RECURSIVE RatSum(_)
RatSum(xs) == IF xs = <<>> THEN <<0, 1>> ELSE RatAdd(Head(xs), RatSum(Tail(xs)))

RECURSIVE Insert(_, _)
Insert(x, sorted) ==
    IF sorted = <<>> THEN <<x>>
    ELSE IF RatLeq(x, Head(sorted)) THEN <<x>> \o sorted
    ELSE <<Head(sorted)>> \o Insert(x, Tail(sorted))

RECURSIVE Sorted(_)
Sorted(xs) == IF xs = <<>> THEN <<>> ELSE Insert(Head(xs), Sorted(Tail(xs)))

series_count_all(col) == Len(col)

series_count(col) == Len(dropna(col))

series_mean(col) ==
    LET xs == dropna(col)
    IN  IF xs = <<>> THEN NaN ELSE RatDiv(RatSum(xs), <<Len(xs), 1>>)

series_median(col) ==
    LET xs == Sorted(dropna(col))
        n == Len(xs)
    IN  IF n = 0 THEN NaN
        ELSE IF n % 2 = 1 THEN xs[(n + 1) \div 2]
        ELSE RatDiv(RatAdd(xs[n \div 2], xs[n \div 2 + 1]), <<2, 1>>)

\* the sample variance (ddof = 1); std() is its square root
series_var(col) ==
    LET xs == dropna(col)
        n == Len(xs)
        m == series_mean(col)
        sq == [k \in DOMAIN xs |-> RatMul(RatSub(xs[k], m), RatSub(xs[k], m))]
    IN  IF n < 2 THEN NaN ELSE RatDiv(RatSum(sq), <<n - 1, 1>>)

series_min(col) ==
    LET xs == Sorted(dropna(col)) IN IF xs = <<>> THEN NaN ELSE xs[1]

series_max(col) ==
    LET xs == Sorted(dropna(col)) IN IF xs = <<>> THEN NaN ELSE xs[Len(xs)]

markout_summary(t, distances) ==
    [k \in DOMAIN distances |->
        LET col == column(t, distances[k])
        IN  [distance |-> distances[k],
             mean |-> series_mean(col),
             median |-> series_median(col),
             std_squared |-> series_var(col),
             min |-> series_min(col),
             max |-> series_max(col),
             count |-> series_count(col)]]

----------------------------------------------------------------------------
(* Inputs *)

SeqsUpTo(S, n) == UNION {[1 .. k -> S] : k \in 0 .. n}

Trade(pair, ts, amounts) ==
    [token_in |-> pair[1], token_out |-> pair[2], timestamp |-> ts,
     amount_in |-> amounts[1], amount_out |-> amounts[2]]

HealthyRemote == [key \in Keys |-> Healthy(key[1], key[2])]

\* a markout column the table already has, left by an earlier computation
StaleCell == <<7, 1>>

\* One trade of a known instrument at any second of two days, any horizons,
\* any time-ordered table for its instrument and date, the table with or
\* without an old markout_2 column.
SingleTradeInputs ==
    \E pair \in {<<"USDC", "ETH">>, <<"BTC", "USDC">>},
       ts \in 0 .. (2 * SecondsPerDay - 1),
       amounts \in {<<1, 200>>, <<2, 1>>},
       old \in {<<>>, <<2>>},
       hs \in SeqsUpTo({0 - 1, 0, 2}, MaxHorizons) :
        LET row == Trade(pair, ts, amounts)
            key == <<valid_symbol(row), ts \div SecondsPerDay>>
        IN  /\ df = Table(<<row>>, old,
                          <<[c \in Range(old) |-> StaleCell]>>)
            /\ horizons = hs
            /\ \E rows \in SubSeqs(Tape(key[1], key[2])) :
                 remote = [HealthyRemote EXCEPT
                              ![key] = Served("ok", "csv", rows, 0)]

BatchRows ==
    {Trade(pair, SecondsPerDay - 1, <<1, 200>>) :
        pair \in {<<"eth", "usdc">>, <<"USDC", "BTC">>, <<"xyz", "USDC">>}}
    \cup {Trade(pair, NaT, <<1, 200>>) :
        pair \in {<<"eth", "usdc">>, <<"xyz", "USDC">>}}

\* A batch of trades of several instruments, one of them possibly without a
\* timestamp, and at most one instrument whose reference series the
\* provider cannot serve properly.
BatchInputs ==
    /\ \E rows \in SeqsUpTo(BatchRows, MaxTrades) :
         df = Table(rows, <<>>, [i \in DOMAIN rows |-> <<>>])
    /\ horizons \in SeqsUpTo({0 - 1, 0, 2}, MaxHorizons)
    /\ \/ remote = HealthyRemote
       \/ \E sym \in available_symbols : \E f \in FaultsOf(sym, 0) :
            remote = [HealthyRemote EXCEPT ![<<sym, 0>>] = f]

Init ==
    /\ (SingleTradeInputs \/ BatchInputs)
    /\ cache = [key \in Keys |-> AbsentFile]
    /\ pc = "idle"
    /\ idx = 0
    /\ run = 1
    /\ orig = df
    /\ out1 = NoTable
    /\ dex = <<>>
    /\ picked = <<>>
    /\ err = "None"
    /\ summary = <<>>

----------------------------------------------------------------------------
(* Actions *)

\* lines 131-132
calculate_markouts_begin ==
    /\ pc = "idle"
    /\ df' = add_markout_columns(df, horizons)
    /\ pc' = "loop"
    /\ idx' = 0
    /\ dex' = [i \in DOMAIN df.rows |-> NoFrame]
    /\ picked' = [i \in DOMAIN df.rows |-> [c \in Range(horizons) |-> NoRow]]
    /\ err' = "None"
    /\ UNCHANGED <<horizons, remote, cache, run, orig, out1, summary>>

\* one iteration of lines 134-177
calculate_markouts_row ==
    /\ pc = "loop"
    /\ idx < Len(df.rows)
    /\ LET i == idx + 1
           o == row_outcome(i)
           filled == markout_loop(df.rows[i], o.frame.rows, horizons,
                                  df.cells[i], picked[i])
       IN  /\ cache' = o.files
           /\ dex' = [dex EXCEPT ![i] = o.frame]
           /\ IF o.what = "raise"
              THEN /\ pc' = "raised"
                   /\ err' = o.error
                   /\ UNCHANGED <<df, idx, picked>>
              ELSE IF o.what = "skip"
              THEN /\ idx' = i
                   /\ UNCHANGED <<df, pc, err, picked>>
              ELSE /\ idx' = i
                   /\ df' = [df EXCEPT !.cells[i] = filled.cells]
                   /\ picked' = [picked EXCEPT ![i] = filled.picked]
                   /\ UNCHANGED <<pc, err>>
    /\ UNCHANGED <<horizons, remote, run, orig, out1, summary>>

\* line 179
calculate_markouts_return ==
    /\ pc = "loop"
    /\ idx = Len(df.rows)
    /\ pc' = "returned"
    /\ UNCHANGED <<df, horizons, remote, cache, idx, run, orig, out1, dex,
                   picked, err, summary>>

\* The caller computes the same markouts once more, the horizons and the
\* provider's data the same: on a copy of the table it first passed, or on
\* the table the first call returned.
calculate_markouts_again ==
    /\ pc = "returned"
    /\ run = 1
    /\ run' = 2
    /\ out1' = df
    /\ df' \in {orig, df}
    /\ pc' = "idle"
    /\ UNCHANGED <<horizons, remote, cache, idx, orig, dex, picked, err,
                   summary>>

\* markout_summary on the table calculate_markouts returned
summarize ==
    /\ pc = "returned"
    /\ summary' = markout_summary(df, horizons)
    /\ pc' = "summarized"
    /\ UNCHANGED <<df, horizons, remote, cache, idx, run, orig, out1, dex,
                   picked, err>>

Next ==
    \/ calculate_markouts_begin
    \/ calculate_markouts_row
    \/ calculate_markouts_return
    \/ calculate_markouts_again
    \/ summarize

Spec == Init /\ [][Next]_vars

----------------------------------------------------------------------------
(* Properties *)

Returned == pc \in {"returned", "summarized"}
Ended == pc \in {"returned", "summarized", "raised"}

\* the rows the loop of the current call has completed
Completed == IF pc = "idle" THEN {} ELSE 1 .. idx

TargetMicro(row, h) == (row.timestamp + h) * Micro
CalendarDate(seconds) == seconds \div SecondsPerDay
MidOf(r) == Rat(r.bid + r.ask, 2)

\* (m - p) / p * 10000
BasisPoints(m, p) == RatMul(RatDiv(RatSub(m, p), p), <<10000, 1>>)

\* C1: for every trade and requested horizon for which a mid price m was
\* resolved and whose execution price p = amount_out / amount_in is not
\* zero, the markout_h cell holds (m - p) / p * 10000.
C1_MarkoutIsBasisPoints ==
    \A i \in Completed : \A h \in Range(horizons) :
        (picked[i][h] # NoRow /\ get_trade_price(df.rows[i])[1] # 0)
        => df.cells[i][h] =
              BasisPoints(MidOf(picked[i][h]), get_trade_price(df.rows[i]))

\* C2: for every time-ordered series, trade and horizon, with
\* t = trade_time + h in microseconds, the lookup uses a snapshot of the series read for the
\* trade whose snapshot_time is the greatest among those <= t and the cell
\* is its mid price (best_bid + best_ask) / 2; when the series has no
\* snapshot <= t the cell is NaN.
C2_LatestSnapshotAtOrBefore ==
    \A i \in Completed : \A h \in Range(horizons) :
        LET S == dex[i].rows
            t == TargetMicro(df.rows[i], h)
            cand == {k \in DOMAIN S : S[k].timestamp <= t}
        IN  IF cand = {}
            THEN picked[i][h] = NoRow /\ df.cells[i][h] = NaN
            ELSE \E k \in cand :
                    /\ \A j \in cand : S[j].timestamp <= S[k].timestamp
                    /\ picked[i][h] = S[k]
                    /\ df.cells[i][h] = MidOf(S[k])

\* a completed lookup that falls between two snapshots of the series, and
\* one of the same trade that falls before its first snapshot
C2_Witness ==
    /\ pc = "returned"
    /\ \E i \in Completed : \E h1, h2 \in Range(horizons) :
         /\ dex[i].rows # <<>>
         /\ df.cells[i][h1] = NaN
         /\ picked[i][h2] # NoRow
         /\ \E k \in DOMAIN dex[i].rows :
              dex[i].rows[k].timestamp > TargetMicro(df.rows[i], h2)

\* C3: a trade neither of whose two symbols is known has every requested
\* markout_h cell NaN in the result, stays in the result, and the result
\* has as many rows as the input.
C3_UnknownSymbolUnavailable ==
    Returned =>
        /\ Len(df.rows) = Len(orig.rows)
        /\ df.rows = orig.rows
        /\ \A i \in DOMAIN df.rows :
             (/\ symbol1(df.rows[i]) \notin available_symbols
              /\ symbol2(df.rows[i]) \notin available_symbols)
             => \A h \in Range(horizons) : df.cells[i][h] = NaN

\* a returned batch with a trade of an unknown pair and a trade that got a
\* markout
C3_Witness ==
    /\ pc = "returned"
    /\ horizons # <<>>
    /\ \E i, j \in DOMAIN df.rows :
         /\ symbol1(df.rows[i]) \notin available_symbols
         /\ symbol2(df.rows[i]) \notin available_symbols
         /\ \E h \in Range(horizons) : df.cells[j][h] # NaN

\* the provider does not serve a readable, non-empty table for the trade
SeriesFails(row) ==
    /\ valid_symbol(row) # NoSymbol
    /\ row.timestamp # NaT
    /\ LET srv == remote[<<valid_symbol(row), CalendarDate(row.timestamp)>>]
       IN  srv.kind # "ok" \/ srv.fmt # "csv" \/ srv.rows = <<>>

\* C4: a reference series that is missing, unreadable, empty or corrupt, or
\* a failure of the provider, for one trade never aborts the batch: no
\* exception leaves calculate_markouts at a trade whose series fails, so
\* that every later trade is still processed.
C4_SeriesFailureNeverAborts ==
    pc = "raised" => ~SeriesFails(df.rows[idx + 1])

RECURSIVE FirstOccurrences(_)
FirstOccurrences(s) ==
    IF s = <<>> THEN <<>>
    ELSE <<Head(s)>>
         \o FirstOccurrences(SelectSeq(Tail(s), LAMBDA x : x # Head(s)))

\* C5 as stated: the markout columns of the requested horizons are, in
\* column order, the sequence of requested horizons, duplicates included.
C5_OneEntryPerRequestedHorizonInOrder ==
    (Returned /\ df.rows # <<>>) =>
        SelectSeq(df.cols, LAMBDA c : c \in Range(horizons)) = horizons

\* C5 as amended: every row has exactly one markout entry per distinct
\* requested horizon; a horizon whose column the input table already has
\* keeps that column's place, and the columns of the other horizons follow
\* the table's columns in the order of their first request.
C5_OneEntryPerDistinctHorizon ==
    Returned =>
        /\ \A k, l \in DOMAIN df.cols : df.cols[k] = df.cols[l] => k = l
        /\ Range(horizons) \subseteq Range(df.cols)
        /\ \A i \in DOMAIN df.rows : DOMAIN df.cells[i] = Range(df.cols)
        /\ df.cols = orig.cols \o FirstOccurrences(
               SelectSeq(horizons, LAMBDA h : h \notin Range(orig.cols)))

\* a returned call that was given the same horizon twice
C5_Witness ==
    /\ pc = "returned"
    /\ df.rows # <<>>
    /\ Len(horizons) = 2
    /\ horizons[1] = horizons[2]
    /\ Len(df.cols) = 1

\* no horizons, or a trade row without its timestamp
ConfigurationError ==
    horizons = <<>> \/ \E i \in DOMAIN orig.rows : orig.rows[i].timestamp = NaT

\* C6: a call with an empty horizon list or with a trade row that lacks a
\* required field ends in a failure, with no trade processed and the input
\* table unchanged.
C6_RejectedUpFront ==
    (run = 1 /\ orig.rows # <<>> /\ ConfigurationError /\ Ended)
    => (pc = "raised" /\ idx = 0 /\ df = orig)

C8_SecondRunIdentical ==
    (run = 2 /\ pc = "returned") => df = out1

\* C9: for a trade's time-ordered series S and two of its lookups at t1 < t2, if S has a
\* snapshot at s <= t1 then the snapshot resolved for t2 has
\* snapshot_time >= s, and >= that of the snapshot resolved for t1.
C9_ResolverMonotonic ==
    \A i \in Completed : \A h1, h2 \in Range(horizons) :
        h1 < h2 =>
            \A k \in DOMAIN dex[i].rows :
                dex[i].rows[k].timestamp <= TargetMicro(df.rows[i], h1)
                => /\ picked[i][h1] # NoRow
                   /\ picked[i][h2] # NoRow
                   /\ picked[i][h2].timestamp >= dex[i].rows[k].timestamp
                   /\ picked[i][h2].timestamp >= picked[i][h1].timestamp

\* two lookups of one trade that resolved to snapshots of different times
C9_Witness ==
    /\ pc = "returned"
    /\ \E i \in Completed : \E h1, h2 \in Range(horizons) :
         /\ h1 < h2
         /\ picked[i][h1] # NoRow
         /\ picked[i][h2].timestamp > picked[i][h1].timestamp

\* C10: the series is chosen once per trade, by the calendar date of the
\* trade's timestamp; a horizon whose target time is on a later date gets
\* the last snapshot of that series, one whose target time is before the
\* first snapshot of that series gets NaN.
C10_SeriesOfTradeDate ==
    \A i \in Completed :
        LET row == df.rows[i]
            S == dex[i].rows
        IN  (valid_symbol(row) # NoSymbol /\ row.timestamp # NaT) =>
            /\ dex[i] # NoFrame =>
                 dex[i] = cache[<<valid_symbol(row),
                                  CalendarDate(row.timestamp)>>]
            /\ \A h \in Range(horizons) :
                 /\ (/\ S # <<>>
                     /\ CalendarDate(row.timestamp + h)
                            > CalendarDate(row.timestamp))
                    => /\ picked[i][h] = S[Len(S)]
                       /\ df.cells[i][h] = MidOf(S[Len(S)])
                 /\ (S # <<>> /\ TargetMicro(row, h) < S[1].timestamp)
                    => df.cells[i][h] = NaN

\* a trade with one target time on the next date, resolved to the last
\* snapshot of its own date, and one on the previous date, NaN although
\* the provider's table of the previous date has a snapshot at or before it
C10_Witness ==
    /\ pc = "returned"
    /\ \E i \in Completed : \E h1, h2 \in Range(horizons) :
         LET row == df.rows[i]
             S == dex[i].rows
             d == CalendarDate(row.timestamp)
         IN  /\ S # <<>>
             /\ d > 0
             /\ CalendarDate(row.timestamp + h1) < d
             /\ df.cells[i][h1] = NaN
             /\ \E k \in DOMAIN remote[<<valid_symbol(row), d - 1>>].rows :
                  remote[<<valid_symbol(row), d - 1>>].rows[k].timestamp
                      <= TargetMicro(row, h1)
             /\ CalendarDate(row.timestamp + h2) > d
             /\ df.cells[i][h2] = MidOf(S[Len(S)])

====
